---- MODULE Spec2Model ----
(***************************************************************************)
(* Lsm-KV: the versioned key (key.rs), the shared byte buffer Bytes and   *)
(* ByteUtil (byte.rs), the concurrent MemTable (mem_table.rs), its         *)
(* write-ahead log (wal.rs) and the FileObject (table.rs).                 *)
(*                                                                         *)
(* Seven specifications share the module:                                  *)
(*   Spec      - a MemTable written by concurrent put_batch calls and read *)
(*               by get, at the granularity of the map's atomic steps;     *)
(*   SpecBytes - Bytes handles that are constructed, cloned and dropped;   *)
(*   SpecKey   - the comparison of Key<T> applied to keys of a bounded     *)
(*               domain;                                                   *)
(*   SpecWal   - a log that is created, written, synced, dropped, damaged  *)
(*               and recovered;                                            *)
(*   SpecFile  - a FileObject that is created or opened, and read;         *)
(*   SpecSeq   - two MemTables given the same entries, one in batches and  *)
(*               one put by put, and the accessors of the first;           *)
(*   SpecUtil  - integers put on a Vec<u8> and got from it.                *)
(***************************************************************************)
EXTENDS Integers, Sequences, FiniteSets, TLC

(***************************************************************************)
(* Bounds of the model.                                                    *)
(***************************************************************************)
\* entries handed to put_batch over all its calls (an empty call counts as one)
MaxEntries == 2
\* longest payload of the keys that SpecKey compares
MaxKeyLen == 2
\* heap allocations made in SpecBytes
MaxAllocs == 2
\* Bytes handles alive at once in SpecBytes
MaxHandles == 3
\* entries written to the log over all calls (an empty batch counts as one)
MaxLogged == 2
\* largest offset and largest length of a read of the FileObject
MaxRead == 4
\* integers on the Vec<u8> at once
MaxStack == 2

\* std::mem::size_of::<u64>() in Key::raw_len
U64Size == 8

Threads == {"t1", "t2"}
\* values written to the MemTable
Values == {<<>>, <<5>>, <<6, 7>>}
\* the key domain of SpecKey
KeyBytes == {1, 2}
KeyVersions == {0, 1, 2}

Min(a, b) == IF a < b THEN a ELSE b

(***************************************************************************)
(* key.rs                                                                  *)
(***************************************************************************)
\* Key<T>(T, u64)
Key(p, v) == [payload |-> p, version |-> v]

\* Key::from_slice: the keys handed to the MemTable
MemKeys == {Key(<<1>>, 0), Key(<<1>>, 1), Key(<<2>>, 0)}

\* Key::raw_len
RawLen(k) == Len(k.payload) + U64Size

\* Key::version
KeyVersion(k) == k.version

\* DEFAULT_VERSION
DEFAULT_VERSION == 0

\* a plausible slip: the owned key is built as for_testing_from_slice_no_ts
\* builds one, without the version
ToKeyBytesNoTs(k) == Key(k.payload, DEFAULT_VERSION)

\* Key::to_key_bytes: the payload is copied, the version kept
ToKeyBytes(k) == Key(k.payload, k.version)

\* Ord for u64
U64Cmp(a, b) == IF a < b THEN "Less" ELSE IF a > b THEN "Greater" ELSE "Equal"

\* Ord for [u8] (as_ref() of the payload): the first differing byte decides,
\* and when one slice is a prefix of the other the lengths decide.
RECURSIVE SliceCmpFrom(_, _, _)
SliceCmpFrom(a, b, i) ==
  IF i > Min(Len(a), Len(b)) THEN U64Cmp(Len(a), Len(b))
  ELSE IF a[i] # b[i] THEN U64Cmp(a[i], b[i])
  ELSE SliceCmpFrom(a, b, i + 1)

SliceCmp(a, b) == SliceCmpFrom(a, b, 1)

\* Ord for std::cmp::Reverse<u64>
ReverseCmp(a, b) == U64Cmp(b, a)

\* a plausible slip: the version is compared without Reverse
KeyCmpAscending(k1, k2) ==
  LET c == SliceCmp(k1.payload, k2.payload)
  IN  IF c # "Equal" THEN c ELSE U64Cmp(k1.version, k2.version)

\* a plausible slip: the version takes no part in the comparison
KeyCmpPayloadOnly(k1, k2) == SliceCmp(k1.payload, k2.payload)

\* a plausible slip: a hand-written comparison of the versions with no
\* Equal case
KeyCmpNeverEqual(k1, k2) ==
  LET c == SliceCmp(k1.payload, k2.payload)
  IN  IF c # "Equal" THEN c
      ELSE IF k1.version > k2.version THEN "Less" ELSE "Greater"

\* Ord for Key<T>: (self.0.as_ref(), Reverse(self.1)).cmp(..)
KeyCmp(k1, k2) ==
  LET c == SliceCmp(k1.payload, k2.payload)
  IN  IF c # "Equal" THEN c ELSE ReverseCmp(k1.version, k2.version)

\* PartialEq for Key<T>: (self.0.as_ref(), self.1).eq(..)
KeyEq(k1, k2) ==
  /\ Len(k1.payload) = Len(k2.payload)
  /\ \A i \in 1..Len(k1.payload) : k1.payload[i] = k2.payload[i]
  /\ k1.version = k2.version

(***************************************************************************)
(* byte.rs: Bytes { ptr, len, cap }.  A pointer is a region and an address:*)
(* region "static" addresses StaticData, region "heap" addresses the       *)
(* sequence heap, whose slots record the allocation's content, its         *)
(* capacity and how many times it was handed to dealloc.                   *)
(***************************************************************************)
\* the 'static slices of the program: EMPTY (byte.rs:15) and b"hello"
StaticData == << <<>>, <<104, 101, 108, 108, 111>> >>
EMPTY == 1

\* the bytes read through a pointer into a freed allocation are undefined
Dangling == <<-1>>

\* Bytes::from_static
BytesFromStatic(s) ==
  [region |-> "static", addr |-> s, len |-> Len(StaticData[s]), cap |-> 0]

\* Bytes::new
BytesNew == BytesFromStatic(EMPTY)

\* std::alloc::dealloc
Dealloc(h, a) == [h EXCEPT ![a].frees = @ + 1]

\* a Vec<u8> with the given content and capacity: it owns an allocation
\* exactly when its capacity is not zero
VecAlloc(h, data, cap) ==
  IF cap = 0 THEN h ELSE Append(h, [data |-> data, cap |-> cap, frees |-> 0])

\* From<Vec<u8>> for Bytes, on the vector (data, cap): the heap after the
\* conversion and the resulting Bytes.  An empty vector is not forgotten but
\* dropped, which frees its allocation if it has one.
BytesFromVec(h, data, cap) ==
  LET h1 == VecAlloc(h, data, cap)
  IN  IF Len(data) = 0
      THEN [heap  |-> IF cap = 0 THEN h1 ELSE Dealloc(h1, Len(h1)),
            bytes |-> BytesNew]
      ELSE [heap  |-> h1,
            bytes |-> [region |-> "heap", addr |-> Len(h1),
                       len |-> Len(data), cap |-> cap]]

\* From<&[u8]> for Bytes: slices.to_vec() has capacity = length
BytesFromSlice(h, data) == BytesFromVec(h, data, Len(data))

\* a plausible slip: the clone keeps the capacity and so frees on drop too
BytesCloneKeepCap(b) == b

\* Clone for Bytes
BytesClone(b) == [b EXCEPT !.cap = 0]

\* Drop for Bytes: the heap after the drop
BytesDrop(h, b) == IF b.cap # 0 THEN Dealloc(h, b.addr) ELSE h

\* a plausible slip: from_raw_parts(self.ptr, self.cap)
AsSliceByCap(h, b) ==
  IF b.region = "static" THEN SubSeq(StaticData[b.addr], 1, b.cap)
  ELSE IF h[b.addr].frees = 0
  THEN SubSeq(h[b.addr].data, 1, Min(b.cap, Len(h[b.addr].data)))
         \o [i \in 1..(b.cap - Min(b.cap, Len(h[b.addr].data))) |-> -1]
  ELSE Dangling

\* Bytes::as_slice / AsRef<[u8]>
AsSlice(h, b) ==
  IF b.region = "static" THEN SubSeq(StaticData[b.addr], 1, b.len)
  ELSE IF h[b.addr].frees = 0 THEN SubSeq(h[b.addr].data, 1, b.len)
  ELSE Dangling

(***************************************************************************)
(* State.                                                                  *)
(***************************************************************************)
None == <<>>
Some(x) == <<x>>

VARIABLES
  heap,              \* the allocator: one slot per allocation ever made
  map,               \* MemTable.map: the skip list's nodes in list order
  wal,               \* MemTable.wal: None or Some(Wal)
  approximate_size,  \* MemTable.approximate_size
  garbage,           \* values of unlinked nodes awaiting the epoch collector
  pc,                \* per thread: its position in put_batch
  batch,             \* per thread: the data argument of its put_batch
  idx,               \* per thread: the loop position in data
  data_size,         \* per thread: the local data_size
  result,            \* per thread: what its last put_batch returned
  issued,            \* Cost of the put_batch calls issued
  getRes,            \* the key and the outcome of the last get
  puts,              \* history: per key, the values inserted for it, in order
  submitted,         \* history: raw_len(key) + len(value) over all issued entries
  handles,           \* SpecBytes: the Bytes values that are alive
  made,              \* SpecBytes: per handle, the bytes it was made from and how
  cmpIn,             \* SpecKey: three keys
  cmpOut,            \* SpecKey: the outcomes of comparing them
  fs,                \* SpecWal: per path, None or the file there
  wlog,              \* SpecWal: None or the Wal that is open
  written,           \* SpecWal: history: the batches written to the Wal
  walOut,            \* SpecWal: the last call on the log and its outcome
  fobj,              \* SpecFile: the file and the FileObject on it
  readOut,           \* SpecFile: the last read and its outcome
  mtA,               \* SpecSeq: a MemTable that is given batches
  mtB,               \* SpecSeq: a MemTable that is given the same entries one by one
  accOut,            \* SpecSeq: the last get, id, approximate_size or is_empty on mtA
  vec,               \* SpecUtil: the Vec<u8>
  stack,             \* SpecUtil: history: the integers put and not yet got
  utilOut            \* SpecUtil: the last get and its outcome

memVars == <<map, wal, approximate_size, garbage, pc, batch, idx, data_size,
             result, issued, getRes, puts, submitted>>
bytesVars == <<handles, made>>
keyVars == <<cmpIn, cmpOut>>
walVars == <<fs, wlog, written, walOut>>
fileVars == <<fobj, readOut>>
seqVars == <<mtA, mtB, accOut>>
utilVars == <<vec, stack, utilOut>>
otherVars == <<walVars, fileVars, seqVars, utilVars>>
vars == <<heap, memVars, bytesVars, keyVars, otherVars>>

(***************************************************************************)
(* The skip list of crossbeam_skiplist::SkipMap<KeyBytes, Bytes>, as the   *)
(* list of its linked nodes.                                               *)
(***************************************************************************)
\* the search of the list for k: the first node whose key is not Less than k
RECURSIVE SearchPosition(_, _, _)
SearchPosition(m, k, i) ==
  IF i > Len(m) THEN i
  ELSE IF KeyCmp(m[i].key, k) = "Less" THEN SearchPosition(m, k, i + 1)
  ELSE i

\* the index of the node holding k, 0 if there is none
SkipMapFind(m, k) ==
  LET i == SearchPosition(m, k, 1)
  IN  IF i <= Len(m) /\ KeyCmp(m[i].key, k) = "Equal" THEN i ELSE 0

\* unlink node i
SkipMapUnlink(m, i) == SubSeq(m, 1, i - 1) \o SubSeq(m, i + 1, Len(m))

\* link a new node at the search position of its key
SkipMapLink(m, k, b) ==
  LET i == SearchPosition(m, k, 1)
  IN  SubSeq(m, 1, i - 1) \o <<[key |-> k, value |-> b]>> \o SubSeq(m, i, Len(m))

(***************************************************************************)
(* mem_table.rs                                                            *)
(***************************************************************************)
Entries == {[key |-> k, value |-> v] : k \in MemKeys, v \in Values}

\* the data arguments of put_batch with n entries
Batches(n) == [1..n -> Entries]

\* what a call with data b takes from MaxEntries
Cost(b) == IF Len(b) = 0 THEN 1 ELSE Len(b)

\* a plausible slip: get seeks the newest version not above the requested one
MemTableGetSeek(m, k) ==
  LET i == SearchPosition(m, Key(k.payload, KeyVersion(k)), 1)
  IN  IF i <= Len(m) /\ m[i].key.payload = k.payload
      THEN Some(BytesClone(m[i].value)) ELSE None

\* MemTable::get: the key is rebuilt as a KeyBytes over the caller's slice,
\* looked up, and the value found is cloned
MemTableGet(m, k) ==
  LET i == SkipMapFind(m, Key(k.payload, KeyVersion(k)))
  IN  IF i = 0 THEN None ELSE Some(BytesClone(m[i].value))

\* a plausible slip: the counter is stored instead of added to
AtomicStore(cur, d) == d

\* MemTable::is_empty: self.map.is_empty(), no node is linked
MemTableIsEmpty(m) == Len(m) = 0

\* AtomicUsize::fetch_add: the new content of the counter
AtomicFetchAdd(cur, d) == cur + d

\* MemTable::new (wal: None) and MemTable::new_with_wal (wal: Some(Wal::new(path)))
MemTableNew(w) ==
  /\ map = <<>>
  /\ wal = w
  /\ approximate_size = 0

\* Wal::new: a new, empty log file
WalNew == [file |-> <<>>]

\* a MemTable on which nothing has been called
MemInit(w) ==
  /\ MemTableNew(w)
  /\ garbage = {}
  /\ pc = [t \in Threads |-> "idle"]
  /\ batch = [t \in Threads |-> <<>>]
  /\ idx = [t \in Threads |-> 0]
  /\ data_size = [t \in Threads |-> 0]
  /\ result = [t \in Threads |-> "none"]
  /\ issued = 0
  /\ getRes = [key |-> Key(<<>>, 0), out |-> None, seen |-> <<>>]
  /\ puts = [k \in MemKeys |-> <<>>]
  /\ submitted = 0

\* no Bytes outside the MemTable
BytesInit ==
  /\ handles = <<>>
  /\ made = <<>>

\* the variables of the specifications of the log, the file object, the
\* sequential MemTables and ByteUtil, while those are not running
WalIdle ==
  /\ fs = <<>>
  /\ wlog = None
  /\ written = <<>>
  /\ walOut = [op |-> "none"]

FileIdle ==
  /\ fobj = None
  /\ readOut = [op |-> "none"]

SeqIdle ==
  /\ mtA = None
  /\ mtB = None
  /\ accOut = [op |-> "none"]

UtilIdle ==
  /\ vec = <<>>
  /\ stack = <<>>
  /\ utilOut = [op |-> "none"]

\* nothing compared
KeyInit ==
  /\ cmpIn = <<>>
  /\ cmpOut = <<>>

Init ==
  /\ heap = <<>>
  /\ \E w \in {None, Some(WalNew)} : MemInit(w)
  /\ BytesInit
  /\ KeyInit
  /\ WalIdle /\ FileIdle /\ SeqIdle /\ UtilIdle

\* Sum of f[i] over i in 1..n
RECURSIVE SumTo(_, _)
SumTo(f, n) == IF n = 0 THEN 0 ELSE f[n] + SumTo(f, n - 1)

BatchBytes(b) ==
  SumTo([i \in 1..Len(b) |-> Len(b[i].key.payload) + 8 + Len(b[i].value)], Len(b))

\* put_batch is entered (put enters it with a single entry): data_size = 0
PutBatchCall(t, b) ==
  /\ pc[t] = "idle"
  /\ issued + Cost(b) <= MaxEntries
  /\ issued' = issued + Cost(b)
  /\ batch' = [batch EXCEPT ![t] = b]
  /\ idx' = [idx EXCEPT ![t] = 1]
  /\ data_size' = [data_size EXCEPT ![t] = 0]
  /\ pc' = [pc EXCEPT ![t] = IF Len(b) = 0 THEN "fetch_add" ELSE "insert"]
  /\ submitted' = submitted + BatchBytes(b)
  /\ UNCHANGED <<heap, map, wal, approximate_size, garbage, result, getRes, puts,
                 bytesVars, keyVars,
                 otherVars>>

\* self.map.insert, when a node with the key is linked: insert unlinks that
\* node first and searches again; the node's value is left to the collector
MapInsertUnlink(t) ==
  /\ pc[t] = "insert"
  /\ LET k == ToKeyBytes(batch[t][idx[t]].key)
         i == SkipMapFind(map, k)
     IN  /\ i # 0
         /\ map' = SkipMapUnlink(map, i)
         /\ garbage' = garbage \cup {map[i].value}
  /\ UNCHANGED <<heap, wal, approximate_size, pc, batch, idx, data_size, result,
                 issued, getRes, puts, submitted, bytesVars, keyVars,
                 otherVars>>

\* one turn of the loop of put_batch whose insert finds no node with the key:
\* data_size grows, the value is copied into a new Bytes and the node is linked
MapInsertLink(t) ==
  /\ pc[t] = "insert"
  /\ LET e == batch[t][idx[t]]
         r == BytesFromSlice(heap, e.value)
     IN  /\ SkipMapFind(map, ToKeyBytes(e.key)) = 0
         /\ heap' = r.heap
         /\ map' = SkipMapLink(map, ToKeyBytes(e.key), r.bytes)
         /\ data_size' = [data_size EXCEPT ![t] = @ + RawLen(e.key) + Len(e.value)]
         /\ puts' = [puts EXCEPT ![e.key] = Append(@, e.value)]
  /\ idx' = [idx EXCEPT ![t] = @ + 1]
  /\ pc' = [pc EXCEPT ![t] = IF idx[t] = Len(batch[t]) THEN "fetch_add" ELSE "insert"]
  /\ UNCHANGED <<wal, approximate_size, garbage, batch, result, issued, getRes,
                 submitted, bytesVars, keyVars,
                 otherVars>>

\* the end of put_batch: self.approximate_size.fetch_add(data_size, Relaxed);
\* then, with a Wal attached, nothing is written to it (the body of the
\* if let is a TODO); Ok(()) is returned
PutBatchFinish(t) ==
  /\ pc[t] = "fetch_add"
  /\ approximate_size' = AtomicFetchAdd(approximate_size, data_size[t])
  /\ wal' = wal
  /\ result' = [result EXCEPT ![t] = "Ok"]
  /\ pc' = [pc EXCEPT ![t] = "idle"]
  /\ batch' = [batch EXCEPT ![t] = <<>>]
  /\ idx' = [idx EXCEPT ![t] = 0]
  /\ data_size' = [data_size EXCEPT ![t] = 0]
  /\ UNCHANGED <<heap, map, garbage, issued, getRes, puts, submitted,
                 bytesVars, keyVars,
                 otherVars>>

\* the epoch collector destroys an unlinked node: its value is dropped
Collect(b) ==
  /\ b \in garbage
  /\ heap' = BytesDrop(heap, b)
  /\ garbage' = garbage \ {b}
  /\ UNCHANGED <<map, wal, approximate_size, pc, batch, idx, data_size, result,
                 issued, getRes, puts, submitted, bytesVars, keyVars,
                 otherVars>>

\* a get, from any thread; seen is what the caller reads through the value
\* it was given, as the call returns
Get(k) ==
  /\ LET out == MemTableGet(map, k)
     IN  getRes' = [key |-> k, out |-> out,
                    seen |-> IF out = None THEN <<>> ELSE AsSlice(heap, out[1])]
  /\ UNCHANGED <<heap, map, wal, approximate_size, garbage, pc, batch, idx,
                 data_size, result, issued, puts, submitted, bytesVars, keyVars,
                 otherVars>>

Next ==
  \/ \E t \in Threads, n \in 0..(MaxEntries - issued) :
       \E b \in Batches(n) : PutBatchCall(t, b)
  \/ \E t \in Threads : MapInsertUnlink(t)
  \/ \E t \in Threads : MapInsertLink(t)
  \/ \E t \in Threads : PutBatchFinish(t)
  \/ \E b \in garbage : Collect(b)
  \/ \E k \in MemKeys : Get(k)

Spec == Init /\ [][Next]_vars

(***************************************************************************)
(* SpecBytes: Bytes values are constructed, cloned and dropped.            *)
(***************************************************************************)
\* contents and spare capacities of the vectors turned into Bytes
VecData == {<<>>, <<1, 2, 3>>}
VecSpare == {0, 2}

RemoveAt(q, i) == SubSeq(q, 1, i - 1) \o SubSeq(q, i + 1, Len(q))

\* Bytes::new()
BNew ==
  /\ Len(handles) < MaxHandles
  /\ handles' = Append(handles, BytesNew)
  /\ made' = Append(made, [data |-> <<>>, how |-> "new"])
  /\ UNCHANGED <<heap, memVars, keyVars,
                 otherVars>>

\* Bytes::from_static(s)
BFromStatic(s) ==
  /\ Len(handles) < MaxHandles
  /\ handles' = Append(handles, BytesFromStatic(s))
  /\ made' = Append(made, [data |-> StaticData[s], how |-> "static"])
  /\ UNCHANGED <<heap, memVars, keyVars,
                 otherVars>>

\* Bytes::from(vec), vec of the given content and capacity
BFromVec(data, cap) ==
  /\ Len(handles) < MaxHandles
  /\ Len(heap) < MaxAllocs
  /\ LET r == BytesFromVec(heap, data, cap)
     IN  /\ heap' = r.heap
         /\ handles' = Append(handles, r.bytes)
  /\ made' = Append(made, [data |-> data, how |-> "vec"])
  /\ UNCHANGED <<memVars, keyVars,
                 otherVars>>

\* Bytes::from(slice)
BFromSlice(data) ==
  /\ Len(handles) < MaxHandles
  /\ Len(heap) < MaxAllocs
  /\ LET r == BytesFromSlice(heap, data)
     IN  /\ heap' = r.heap
         /\ handles' = Append(handles, r.bytes)
  /\ made' = Append(made, [data |-> data, how |-> "slice"])
  /\ UNCHANGED <<memVars, keyVars,
                 otherVars>>

\* handles[i].clone()
BClone(i) ==
  /\ Len(handles) < MaxHandles
  /\ handles' = Append(handles, BytesClone(handles[i]))
  /\ made' = Append(made, [data |-> made[i].data, how |-> "clone"])
  /\ UNCHANGED <<heap, memVars, keyVars,
                 otherVars>>

\* drop(handles[i])
BDrop(i) ==
  /\ heap' = BytesDrop(heap, handles[i])
  /\ handles' = RemoveAt(handles, i)
  /\ made' = RemoveAt(made, i)
  /\ UNCHANGED <<memVars, keyVars,
                 otherVars>>

InitBytes ==
  /\ heap = <<>>
  /\ MemInit(None)
  /\ BytesInit
  /\ KeyInit
  /\ WalIdle /\ FileIdle /\ SeqIdle /\ UtilIdle

NextBytes ==
  \/ BNew
  \/ \E s \in 1..Len(StaticData) : BFromStatic(s)
  \/ \E d \in VecData, c \in VecSpare : BFromVec(d, Len(d) + c)
  \/ \E d \in VecData : BFromSlice(d)
  \/ \E i \in 1..Len(handles) : BClone(i)
  \/ \E i \in 1..Len(handles) : BDrop(i)

SpecBytes == InitBytes /\ [][NextBytes]_vars

(***************************************************************************)
(* SpecKey: keys of a bounded domain are compared.                         *)
(***************************************************************************)
KeyPayloads == UNION {[1..n -> KeyBytes] : n \in 0..MaxKeyLen}
KeyDomain == {Key(p, v) : p \in KeyPayloads, v \in KeyVersions}

\* cmp and eq of every pair of the keys ks
CompareAll(ks) ==
  [i \in 1..Len(ks) |-> [j \in 1..Len(ks) |->
     [ord |-> KeyCmp(ks[i], ks[j]), eq |-> KeyEq(ks[i], ks[j])]]]

InitKey ==
  /\ heap = <<>>
  /\ MemInit(None)
  /\ BytesInit
  /\ cmpIn = <<Key(<<>>, 0), Key(<<>>, 0), Key(<<>>, 0)>>
  /\ cmpOut = CompareAll(cmpIn)
  /\ WalIdle /\ FileIdle /\ SeqIdle /\ UtilIdle

\* a further key k is compared with the last two keys and with itself
KeyCompare(k) ==
  /\ cmpIn' = <<cmpIn[2], cmpIn[3], k>>
  /\ cmpOut' = CompareAll(cmpIn')
  /\ UNCHANGED <<heap, memVars, bytesVars,
                 otherVars>>

NextKey == \E k \in KeyDomain : KeyCompare(k)

SpecKey == InitKey /\ [][NextKey]_vars

(***************************************************************************)
(* SpecWal: the log file of a MemTable.  Wal::new and Wal::sync are the    *)
(* code of wal.rs; Wal::put_batch and Wal::recover are in wal.rs as        *)
(* commented-out code, and are modelled from that text.                    *)
(***************************************************************************)
Paths == {"a", "b"}
Ids == {0, 1}

\* the content of the file that occupies path "a" from the start
Occupant == <<7>>

\* the entries that are logged: a version of two bytes, a payload of two, an
\* empty value
WalEntries ==
  {[key |-> k, value |-> v] : k \in {Key(<<1>>, 258), Key(<<2, 1>>, 0)},
                              v \in {<<>>, <<5>>}}

\* the data arguments of Wal::put_batch with n entries
WalBatches(n) == [1..n -> WalEntries]

\* a file: os is what a read of the file sees, disk what stable storage holds
FileOf(o, d) == [os |-> o, disk |-> d]

\* MemTable::new / MemTable::new_with_wal: the value constructed
NewMemTable(id, w) == [map |-> <<>>, wal |-> w, id |-> id, approximate_size |-> 0]

\* a plausible slip: create(true).truncate(true) in place of create_new(true)
OpenCreateTruncate(f, p) ==
  [res |-> "Ok", fs |-> [f EXCEPT ![p] = Some(FileOf(<<>>, <<>>))]]

\* OpenOptions::new().read(true).create_new(true).write(true).open(path)
OpenCreateNew(f, p) ==
  IF f[p] # None
  THEN [res |-> "AlreadyExists", fs |-> f]
  ELSE [res |-> "Ok", fs |-> [f EXCEPT ![p] = Some(FileOf(<<>>, <<>>))]]

\* val.to_be_bytes() of an integer of w bytes (the high bytes of a wider
\* value are cut off, as by "as u16" and "as u32")
RECURSIVE ToBeBytes(_, _)
ToBeBytes(x, w) ==
  IF w = 0 THEN <<>> ELSE Append(ToBeBytes(x \div 256, w - 1), x % 256)

\* uN::from_be_bytes
RECURSIVE FromBeBytes(_)
FromBeBytes(bs) ==
  IF bs = <<>> THEN 0
  ELSE FromBeBytes(SubSeq(bs, 1, Len(bs) - 1)) * 256 + bs[Len(bs)]

\* ByteUtil::put_u16 / put_u32 / put_u64 (w = 2, 4, 8):
\* self.extend_from_slice(&val.to_be_bytes())
PutUint(v, x, w) == v \o ToBeBytes(x, w)

\* crc32fast::hash: a checksum over every byte and its position stands for
\* the CRC-32 of the library
RECURSIVE Crc32(_)
Crc32(bs) ==
  IF bs = <<>> THEN 1
  ELSE (Crc32(SubSeq(bs, 1, Len(bs) - 1)) * 31 + bs[Len(bs)] + 1) % 65521

\* Wal::put_batch, the loop: key_len, key, ts, value_len, value of each entry
RECURSIVE EncodeEntries(_, _)
EncodeEntries(buf, data) ==
  IF data = <<>> THEN buf
  ELSE LET key == data[1].key
           value == data[1].value
           b1 == PutUint(buf, Len(key.payload), 2)
           b2 == b1 \o key.payload
           b3 == PutUint(b2, key.version, 8)
           b4 == PutUint(b3, Len(value), 2)
       IN  EncodeEntries(b4 \o value, Tail(data))

\* a plausible slip: the header counts the checksum as well
BatchFrameCountsChecksum(data) ==
  LET buf == EncodeEntries(<<>>, data)
  IN  <<ToBeBytes(Len(buf) + 4, 4), buf, ToBeBytes(Crc32(buf), 4)>>

\* Wal::put_batch, the three write_all calls: header, body, checksum
BatchFrame(data) ==
  LET buf == EncodeEntries(<<>>, data)
  IN  <<ToBeBytes(Len(buf), 4), buf, ToBeBytes(Crc32(buf), 4)>>

EncodeBatch(data) ==
  BatchFrame(data)[1] \o BatchFrame(data)[2] \o BatchFrame(data)[3]

\* the bytes of the batches bs, one after the other
RECURSIVE WalImage(_)
WalImage(bs) == IF bs = <<>> THEN <<>> ELSE EncodeBatch(bs[1]) \o WalImage(Tail(bs))

\* the entries of the batches bs, one after the other
RECURSIVE Flatten(_)
Flatten(bs) == IF bs = <<>> THEN <<>> ELSE bs[1] \o Flatten(Tail(bs))

\* BufWriter::new: the capacity of the buffer
BufCapacity == 8192

\* BufWriter::write_all over a file that has content os: the buffer is
\* written out first when data does not fit, and data bypasses the buffer
\* when it is as long as the capacity
BufWrite(w, data) ==
  LET spill == Len(w.buf) + Len(data) > BufCapacity
      b1 == IF spill THEN <<>> ELSE w.buf
      o1 == IF spill THEN w.os \o w.buf ELSE w.os
  IN  IF Len(data) >= BufCapacity
      THEN [buf |-> b1, os |-> o1 \o data]
      ELSE [buf |-> b1 \o data, os |-> o1]

\* Write::flush of &File (file.get_ref() is the File under the BufWriter):
\* a File has no buffer of its own, nothing happens
FileFlush(f) == f

\* File::sync_all
FileSyncAll(f) == [f EXCEPT !.disk = f.os]

\* Wal::recover, the inner loop over a batch: None where a read or a slice
\* runs past the end of the batch (a panic)
RECURSIVE ParseEntries(_, _)
ParseEntries(batch_buf, kv_pairs) ==
  IF batch_buf = <<>> THEN Some(kv_pairs)
  ELSE IF Len(batch_buf) < 2 THEN None
  ELSE LET key_len == FromBeBytes(SubSeq(batch_buf, 1, 2))
           r1 == SubSeq(batch_buf, 3, Len(batch_buf))
       IN  IF Len(r1) < key_len + 8 + 2 THEN None
           ELSE LET key == SubSeq(r1, 1, key_len)
                    ts == FromBeBytes(SubSeq(r1, key_len + 1, key_len + 8))
                    value_len == FromBeBytes(SubSeq(r1, key_len + 9, key_len + 10))
                    r2 == SubSeq(r1, key_len + 11, Len(r1))
                IN  IF Len(r2) < value_len THEN None
                    ELSE ParseEntries(SubSeq(r2, value_len + 1, Len(r2)),
                           Append(kv_pairs, [key |-> Key(key, ts),
                                             value |-> SubSeq(r2, 1, value_len)]))

\* Wal::recover, the outer loop over the bytes read: res is what the call
\* comes to, entries what it has inserted into the skiplist, in order
RECURSIVE RecoverFrom(_, _)
RecoverFrom(rbuf, inserted) ==
  IF rbuf = <<>> THEN [res |-> "Ok", entries |-> inserted]
  ELSE IF Len(rbuf) < 4 THEN [res |-> "panic", entries |-> inserted]
  ELSE LET batch_size == FromBeBytes(SubSeq(rbuf, 1, 4))
           r1 == SubSeq(rbuf, 5, Len(rbuf))
       IN  IF Len(r1) < batch_size
           THEN [res |-> "incomplete WAL", entries |-> inserted]
           ELSE LET batch_buf == SubSeq(r1, 1, batch_size)
                    kv == ParseEntries(batch_buf, <<>>)
                    r2 == SubSeq(r1, batch_size + 1, Len(r1))
                IN  IF kv = None \/ Len(r2) < 4
                    THEN [res |-> "panic", entries |-> inserted]
                    ELSE IF Crc32(batch_buf) # FromBeBytes(SubSeq(r2, 1, 4))
                    THEN [res |-> "checksum mismatch", entries |-> inserted]
                    ELSE RecoverFrom(SubSeq(r2, 5, Len(r2)), inserted \o kv[1])

\* what the batches logged so far take from MaxLogged
LoggedAt(p) ==
  SumTo([i \in 1..Len(written[p].batches) |-> Cost(written[p].batches[i])],
        Len(written[p].batches))

Logged == LoggedAt("a") + LoggedAt("b")

\* MemTable::new_with_wal(id, path), Wal::new(path) within it
MemTableNewWithWal(id, p) ==
  /\ wlog = None \/ fs[p] # None
  /\ LET o == OpenCreateNew(fs, p)
     IN  /\ fs' = o.fs
         /\ wlog' = IF o.res = "Ok" THEN Some([path |-> p, buf |-> <<>>]) ELSE wlog
         /\ walOut' = [op |-> "new_with_wal", path |-> p, res |-> o.res,
                       before |-> fs[p],
                       table |-> IF o.res = "Ok"
                                 THEN Some(NewMemTable(id, Some(WalNew)))
                                 ELSE None]
  /\ UNCHANGED <<written, heap, memVars, bytesVars, keyVars, fileVars, seqVars,
                 utilVars>>

\* Wal::put_batch(data)
WalPutBatch(data) ==
  /\ wlog # None
  /\ Logged + Cost(data) <= MaxLogged
  /\ LET w == wlog[1]
         f == fs[w.path][1]
         fr == BatchFrame(data)
         s1 == BufWrite([buf |-> w.buf, os |-> f.os], fr[1])
         s2 == BufWrite(s1, fr[2])
         s3 == BufWrite(s2, fr[3])
     IN  /\ wlog' = Some([w EXCEPT !.buf = s3.buf])
         /\ fs' = [fs EXCEPT ![w.path] = Some([f EXCEPT !.os = s3.os])]
         /\ written' = [written EXCEPT ![w.path].batches = Append(@, data)]
         /\ walOut' = [op |-> "put_batch", path |-> w.path, res |-> "Ok"]
  /\ UNCHANGED <<heap, memVars, bytesVars, keyVars, fileVars, seqVars, utilVars>>

\* Wal::sync; sync_all succeeds or fails with an IO error
WalSync(ok) ==
  /\ wlog # None
  /\ LET w == wlog[1]
         f == FileFlush(fs[w.path][1])
     IN  /\ fs' = [fs EXCEPT ![w.path] = Some(IF ok THEN FileSyncAll(f) ELSE f)]
         /\ walOut' = [op |-> "sync", path |-> w.path,
                       res |-> IF ok THEN "Ok" ELSE "Err"]
  /\ UNCHANGED <<wlog, written, heap, memVars, bytesVars, keyVars, fileVars,
                 seqVars, utilVars>>

\* the Wal is dropped: the BufWriter writes its buffer out, the file is closed
WalDrop ==
  /\ wlog # None
  /\ LET w == wlog[1]
         f == fs[w.path][1]
     IN  fs' = [fs EXCEPT ![w.path] = Some([f EXCEPT !.os = f.os \o w.buf])]
  /\ wlog' = None
  /\ walOut' = [op |-> "drop", path |-> wlog[1].path, res |-> "Ok"]
  /\ UNCHANGED <<written, heap, memVars, bytesVars, keyVars, fileVars, seqVars,
                 utilVars>>

\* Wal::recover(path, skiplist) into an empty skiplist
WalRecover(p) ==
  /\ wlog = None
  /\ LET r == IF fs[p] = None
              THEN [res |-> "failed to recover from WAL", entries |-> <<>>]
              ELSE RecoverFrom(fs[p][1].os, <<>>)
     IN  /\ wlog' = IF r.res = "Ok" THEN Some([path |-> p, buf |-> <<>>]) ELSE None
         /\ walOut' = [op |-> "recover", path |-> p, res |-> r.res,
                       entries |-> r.entries,
                       read |-> IF fs[p] = None THEN None ELSE Some(fs[p][1].os),
                       hist |-> written[p]]
  /\ UNCHANGED <<fs, written, heap, memVars, bytesVars, keyVars, fileVars,
                 seqVars, utilVars>>

\* the file at p holds exactly the batches written to it, and nobody has it open
Intact(p) ==
  /\ wlog = None
  /\ fs[p] # None
  /\ written[p].bad = 0
  /\ fs[p][1].os = WalImage(written[p].batches)

\* the storage damages the last byte of the checksum of the k-th batch
CorruptChecksum(p, k) ==
  /\ Intact(p)
  /\ k \in 1..Len(written[p].batches)
  /\ LET f == fs[p][1]
         at == Len(WalImage(SubSeq(written[p].batches, 1, k)))
     IN  fs' = [fs EXCEPT ![p] =
                  Some([f EXCEPT !.os = [f.os EXCEPT ![at] = (@ + 1) % 256]])]
  /\ written' = [written EXCEPT ![p].bad = k]
  /\ walOut' = [op |-> "damage", path |-> p, res |-> "Ok"]
  /\ UNCHANGED <<wlog, heap, memVars, bytesVars, keyVars, fileVars, seqVars,
                 utilVars>>

\* where a batch is cut: in its header, after its header, before and in its
\* checksum
CutPoints(data) ==
  LET len == Len(EncodeBatch(data))
  IN  {n \in {1, 4, len - 4, len - 1} : 0 < n /\ n < len}

\* the file ends after the first n bytes of the k-th batch
Truncate(p, k, n) ==
  /\ Intact(p)
  /\ k \in 1..Len(written[p].batches)
  /\ LET f == fs[p][1]
         at == Len(WalImage(SubSeq(written[p].batches, 1, k - 1))) + n
     IN  fs' = [fs EXCEPT ![p] = Some([f EXCEPT !.os = SubSeq(f.os, 1, at)])]
  /\ written' = [written EXCEPT ![p].bad = k]
  /\ walOut' = [op |-> "damage", path |-> p, res |-> "Ok"]
  /\ UNCHANGED <<wlog, heap, memVars, bytesVars, keyVars, fileVars, seqVars,
                 utilVars>>

InitWal ==
  /\ heap = <<>>
  /\ MemInit(None)
  /\ BytesInit
  /\ KeyInit
  /\ FileIdle /\ SeqIdle /\ UtilIdle
  /\ fs = [p \in Paths |-> IF p = "a" THEN Some(FileOf(Occupant, Occupant)) ELSE None]
  /\ wlog = None
  /\ written = [p \in Paths |-> [batches |-> <<>>, bad |-> 0]]
  /\ walOut = [op |-> "none"]

NextWal ==
  \/ \E id \in Ids, p \in Paths : MemTableNewWithWal(id, p)
  \/ \E n \in 0..MaxLogged : \E data \in WalBatches(n) : WalPutBatch(data)
  \/ \E ok \in BOOLEAN : WalSync(ok)
  \/ WalDrop
  \/ \E p \in Paths : WalRecover(p)
  \/ \E p \in Paths : \E k \in 1..Len(written[p].batches) : CorruptChecksum(p, k)
  \/ \E p \in Paths : \E k \in 1..Len(written[p].batches) :
       \E n \in CutPoints(written[p].batches[k]) : Truncate(p, k, n)

SpecWal == InitWal /\ [][NextWal]_vars

(***************************************************************************)
(* SpecFile: a FileObject is created or opened, and read.                  *)
(***************************************************************************)
\* contents of the file
FileData == {<<>>, <<1, 2>>, <<10, 20, 30>>}

\* FileObject(Option<File>, u64) on a file of the given content: size is the
\* cached length, pos the cursor of the file handle
FileObject(data, size) == [data |-> data, size |-> size, pos |-> 0]

\* FileObject::new(path, data): the data is written, synced and reopened
\* read-only; the length cached is data.len()
FileObjectNew(data) == FileObject(data, Len(data))

\* FileObject::open(path) on a file of content data: the length cached is
\* file.metadata()?.len()
FileObjectOpen(data) == FileObject(data, Len(data))

\* a plausible slip: read_exact, which reads at the cursor of the handle and
\* moves it, in place of read_exact_at
ReadExact(f, offset, len) ==
  IF len = 0 THEN [res |-> "Ok", data |-> <<>>, pos |-> f.pos]
  ELSE IF f.pos + len <= Len(f.data)
  THEN [res |-> "Ok", data |-> SubSeq(f.data, f.pos + 1, f.pos + len),
        pos |-> f.pos + len]
  ELSE [res |-> "UnexpectedEof", data |-> <<>>, pos |-> Len(f.data)]

\* FileExt::read_exact_at(&mut data[..], offset) with data = vec![0; len]:
\* nothing is read into an empty buffer; a buffer that the file cannot fill
\* from offset on is an error; the cursor of the handle is not used
ReadExactAt(f, offset, len) ==
  IF len = 0 THEN [res |-> "Ok", data |-> <<>>, pos |-> f.pos]
  ELSE IF offset + len <= Len(f.data)
  THEN [res |-> "Ok", data |-> SubSeq(f.data, offset + 1, offset + len),
        pos |-> f.pos]
  ELSE [res |-> "UnexpectedEof", data |-> <<>>, pos |-> f.pos]

\* FileObject::new or FileObject::open
FileCreate(data, how) ==
  /\ fobj = None
  /\ fobj' = Some(IF how = "new" THEN FileObjectNew(data) ELSE FileObjectOpen(data))
  /\ readOut' = [op |-> how]
  /\ UNCHANGED <<heap, memVars, bytesVars, keyVars, walVars, seqVars, utilVars>>

\* FileObject::read(offset, len)
FileRead(offset, len) ==
  /\ fobj # None
  /\ LET r == ReadExactAt(fobj[1], offset, len)
     IN  /\ fobj' = Some([fobj[1] EXCEPT !.pos = r.pos])
         /\ readOut' = [op |-> "read", offset |-> offset, len |-> len,
                        res |-> r.res, data |-> r.data,
                        after |-> readOut.op]
  /\ UNCHANGED <<heap, memVars, bytesVars, keyVars, walVars, seqVars, utilVars>>

\* FileObject::size()
FileSize ==
  /\ fobj # None
  /\ readOut' = [op |-> "size", res |-> fobj[1].size]
  /\ UNCHANGED <<fobj, heap, memVars, bytesVars, keyVars, walVars, seqVars,
                 utilVars>>

InitFile ==
  /\ heap = <<>>
  /\ MemInit(None)
  /\ BytesInit
  /\ KeyInit
  /\ WalIdle /\ SeqIdle /\ UtilIdle
  /\ FileIdle

NextFile ==
  \/ \E data \in FileData, how \in {"new", "open"} : FileCreate(data, how)
  \/ \E offset \in 0..MaxRead, len \in 0..MaxRead : FileRead(offset, len)
  \/ FileSize

SpecFile == InitFile /\ [][NextFile]_vars

(***************************************************************************)
(* SpecSeq: two MemTables, each with a heap of its own, are given the same *)
(* entries by one caller: mtA in batches, mtB one put per entry.           *)
(***************************************************************************)
\* self.map.insert(key, value) with no other thread about: the node with the
\* key, if there is one, is unlinked, then the new node is linked
SkipMapInsert(m, k, v) ==
  LET i == SkipMapFind(m, k)
  IN  SkipMapLink(IF i = 0 THEN m ELSE SkipMapUnlink(m, i), k, v)

\* the loop of put_batch from entry i on; a replaced value is dropped
RECURSIVE PutBatchLoop(_, _, _)
PutBatchLoop(s, data, i) ==
  IF i > Len(data) THEN s
  ELSE LET key == data[i].key
           value == data[i].value
           r == BytesFromSlice(s.heap, value)
           j == SkipMapFind(s.map, ToKeyBytes(key))
       IN  PutBatchLoop(
             [map |-> SkipMapInsert(s.map, ToKeyBytes(key), r.bytes),
              heap |-> IF j = 0 THEN r.heap ELSE BytesDrop(r.heap, s.map[j].value),
              data_size |-> s.data_size + RawLen(key) + Len(value)],
             data, i + 1)

\* MemTable::put_batch(data), start to end, on the MemTable s.table
MemTablePutBatch(s, data) ==
  LET l == PutBatchLoop([map |-> s.table.map, heap |-> s.heap, data_size |-> 0],
                        data, 1)
  IN  [table |-> [s.table EXCEPT
                    !.map = l.map,
                    !.approximate_size = AtomicFetchAdd(@, l.data_size)],
       heap |-> l.heap,
       result |-> "Ok",
       issued |-> s.issued + Cost(data)]

\* a plausible slip: put inserts into the map itself and leaves the size alone
MemTablePutMapOnly(s, key, value) ==
  LET l == PutBatchLoop([map |-> s.table.map, heap |-> s.heap, data_size |-> 0],
                        <<[key |-> key, value |-> value]>>, 1)
  IN  [table |-> [s.table EXCEPT !.map = l.map],
       heap |-> l.heap,
       result |-> "Ok",
       issued |-> s.issued + 1]

\* MemTable::put(key, value): self.put_batch(&[(key, value)])
MemTablePut(s, key, value) ==
  MemTablePutBatch(s, <<[key |-> key, value |-> value]>>)

\* put(e1); ...; put(en) for the entries of data; no call for an empty data
RECURSIVE PutEach(_, _)
PutEach(s, data) ==
  IF data = <<>> THEN s
  ELSE PutEach(MemTablePut(s, data[1].key, data[1].value), Tail(data))

\* the keys of a MemTable and the bytes each maps to, in the order of the map
MapContent(s) ==
  [i \in 1..Len(s.table.map) |->
     [key |-> s.table.map[i].key, value |-> AsSlice(s.heap, s.table.map[i].value)]]

\* AtomicUsize::load
AtomicLoad(cur) == cur

\* a plausible slip: get takes the entry out, self.map.remove(&key_bytes)
MemTableGetRemove(s, key) ==
  LET i == SkipMapFind(s.table.map, Key(key.payload, KeyVersion(key)))
  IN  [mt |-> IF i = 0 THEN s
              ELSE [s EXCEPT !.table.map = SkipMapUnlink(s.table.map, i)],
       out |-> MemTableGet(s.table.map, key)]

\* MemTable::get(key) on &self: the MemTable after the call and the value
\* returned.  The key looked up borrows the caller's payload (from_static,
\* cap = 0), so its drop frees nothing; the value found is cloned.
MemTableGetCall(s, key) == [mt |-> s, out |-> MemTableGet(s.table.map, key)]

\* MemTable::id() on &self
MemTableId(s) == [mt |-> s, out |-> s.table.id]

\* MemTable::approximate_size() on &self
MemTableApproximateSize(s) ==
  [mt |-> s, out |-> AtomicLoad(s.table.approximate_size)]

\* MemTable::is_empty() on &self
MemTableIsEmptyCall(s) == [mt |-> s, out |-> MemTableIsEmpty(s.table.map)]

\* what an accessor leaves in accOut: the call, its outcome, the MemTable it
\* was made on, and the id the MemTable was created with
Accessed(op, key, r) ==
  [op |-> op, key |-> key, out |-> r.out, before |-> mtA, born |-> accOut.born]

\* mtA.put_batch(data) and, entry by entry, mtB.put
SeqPutBatch(data) ==
  /\ mtA.issued + Cost(data) <= MaxEntries
  /\ mtA' = MemTablePutBatch(mtA, data)
  /\ mtB' = [PutEach(mtB, data) EXCEPT !.issued = mtA'.issued]
  /\ accOut' = [op |-> "none", born |-> accOut.born]
  /\ UNCHANGED <<heap, memVars, bytesVars, keyVars, walVars, fileVars, utilVars>>

InitSeq ==
  /\ heap = <<>>
  /\ MemInit(None)
  /\ BytesInit
  /\ KeyInit
  /\ WalIdle /\ FileIdle /\ UtilIdle
  /\ \E id \in Ids :
       /\ mtA = [table |-> NewMemTable(id, None), heap |-> <<>>,
                 result |-> "none", issued |-> 0]
       /\ mtB = mtA
       /\ accOut = [op |-> "none", born |-> id]

\* mtA.get(key)
SeqGet(key) ==
  /\ LET r == MemTableGetCall(mtA, key)
     IN  mtA' = r.mt /\ accOut' = Accessed("get", key, r)
  /\ UNCHANGED <<mtB, heap, memVars, bytesVars, keyVars, walVars, fileVars,
                 utilVars>>

\* mtA.id()
SeqId ==
  /\ LET r == MemTableId(mtA)
     IN  mtA' = r.mt /\ accOut' = Accessed("id", Key(<<>>, 0), r)
  /\ UNCHANGED <<mtB, heap, memVars, bytesVars, keyVars, walVars, fileVars,
                 utilVars>>

\* mtA.approximate_size()
SeqApproximateSize ==
  /\ LET r == MemTableApproximateSize(mtA)
     IN  mtA' = r.mt /\ accOut' = Accessed("approximate_size", Key(<<>>, 0), r)
  /\ UNCHANGED <<mtB, heap, memVars, bytesVars, keyVars, walVars, fileVars,
                 utilVars>>

\* mtA.is_empty()
SeqIsEmpty ==
  /\ LET r == MemTableIsEmptyCall(mtA)
     IN  mtA' = r.mt /\ accOut' = Accessed("is_empty", Key(<<>>, 0), r)
  /\ UNCHANGED <<mtB, heap, memVars, bytesVars, keyVars, walVars, fileVars,
                 utilVars>>

NextSeq ==
  \/ \E n \in 0..MaxEntries : \E data \in Batches(n) : SeqPutBatch(data)
  \/ \E key \in MemKeys : SeqGet(key)
  \/ SeqId
  \/ SeqApproximateSize
  \/ SeqIsEmpty

SpecSeq == InitSeq /\ [][NextSeq]_vars

(***************************************************************************)
(* SpecUtil: integers are put on a Vec<u8> and got from it.                *)
(***************************************************************************)
\* the widths of u16, u32 and u64, in bytes
Widths == {2, 4, 8}

\* the values put, by width
UintValues(w) ==
  IF w = 2 THEN {0, 258, 65535}
  ELSE IF w = 4 THEN {12345, 32145, 16909060}
  ELSE {1, 1234567899}

\* the loop of get_uN: for i in (0..N).rev() { bytes[i] = self.pop().unwrap() }
\* with i counted from 1
RECURSIVE PopInto(_, _, _)
PopInto(v, bytes, i) ==
  IF i = 0 THEN [vec |-> v, bytes |-> bytes]
  ELSE PopInto(SubSeq(v, 1, Len(v) - 1), [bytes EXCEPT ![i] = v[Len(v)]], i - 1)

\* a plausible slip: the bytes popped are read with from_le_bytes
GetUintLittleEndian(v, w) ==
  IF Len(v) < w THEN [out |-> None, vec |-> v]
  ELSE LET p == PopInto(v, [i \in 1..w |-> 0], w)
       IN  [out |-> Some(FromBeBytes([i \in 1..w |-> p.bytes[w + 1 - i]])),
            vec |-> p.vec]

\* ByteUtil::get_u16 / get_u32 / get_u64 (w = 2, 4, 8): the value returned
\* and the vector left
GetUint(v, w) ==
  IF Len(v) < w THEN [out |-> None, vec |-> v]
  ELSE LET p == PopInto(v, [i \in 1..w |-> 0], w)
       IN  [out |-> Some(FromBeBytes(p.bytes)), vec |-> p.vec]

\* put_u16, put_u32 or put_u64 of x
UtilPut(w, x) ==
  /\ Len(stack) < MaxStack
  /\ vec' = PutUint(vec, x, w)
  /\ stack' = Append(stack, [w |-> w, x |-> x])
  /\ utilOut' = [op |-> "put", w |-> w, out |-> None, before |-> vec,
                 top |-> None, prev |-> utilOut.op]
  /\ UNCHANGED <<heap, memVars, bytesVars, keyVars, walVars, fileVars, seqVars>>

\* get_u16, get_u32 or get_u64, of the width last put or of a width the
\* vector is too short for
UtilGet(w) ==
  /\ Len(vec) < w \/ (stack # <<>> /\ stack[Len(stack)].w = w)
  /\ LET r == GetUint(vec, w)
     IN  /\ vec' = r.vec
         /\ stack' = IF r.out = None THEN stack ELSE SubSeq(stack, 1, Len(stack) - 1)
         /\ utilOut' = [op |-> "get", w |-> w, out |-> r.out, before |-> vec,
                        top |-> IF stack = <<>> THEN None
                                ELSE Some(stack[Len(stack)]),
                        prev |-> utilOut.op]
  /\ UNCHANGED <<heap, memVars, bytesVars, keyVars, walVars, fileVars, seqVars>>

InitUtil ==
  /\ heap = <<>>
  /\ MemInit(None)
  /\ BytesInit
  /\ KeyInit
  /\ WalIdle /\ FileIdle /\ SeqIdle
  /\ UtilIdle

NextUtil ==
  \/ \E w \in Widths : \E x \in UintValues(w) : UtilPut(w, x)
  \/ \E w \in Widths : UtilGet(w)

SpecUtil == InitUtil /\ [][NextUtil]_vars

(***************************************************************************)
(* Properties.                                                             *)
(***************************************************************************)
Last(q) == q[Len(q)]

AllIdle == \A t \in Threads : pc[t] = "idle"

\* no put_batch is at an insert of key k
Quiescent(k) == \A t \in Threads : pc[t] = "insert" => batch[t][idx[t]].key # k

\* a is before b in byte-wise lexicographic order
LexLess(a, b) ==
  \E n \in 0..Min(Len(a), Len(b)) :
    /\ \A i \in 1..n : a[i] = b[i]
    /\ \/ n = Len(a) /\ n < Len(b)
       \/ n < Len(a) /\ n < Len(b) /\ a[n + 1] < b[n + 1]

\* payload ascending, then version descending
KeyBefore(k1, k2) ==
  \/ LexLess(k1.payload, k2.payload)
  \/ k1.payload = k2.payload /\ k1.version > k2.version

\* the nodes of m whose key is k
NodesOf(m, k) == {i \in 1..Len(m) : KeyEq(m[i].key, k)}

\* C1: when no put of key k is under way, get(k) returns the value of the
\* last put of exactly (payload, version) = k, and absent if k was never put,
\* whatever was put under other keys and other versions of the payload.
ExactMatchGet ==
  \A k \in MemKeys :
    Quiescent(k) =>
      LET r == MemTableGet(map, k)
      IN  IF puts[k] = <<>> THEN r = None
          ELSE r # None /\ AsSlice(heap, r[1]) = Last(puts[k])

\* a get of a key that was put found its value, while another version of the
\* same payload was never put and is absent, and another payload was put too
GetAfterPutSeen ==
  /\ AllIdle
  /\ \E k, k2, k3 \in MemKeys :
       /\ k.payload = k2.payload /\ k.version # k2.version
       /\ k3.payload # k.payload
       /\ puts[k] # <<>> /\ puts[k2] = <<>> /\ puts[k3] # <<>>
       /\ getRes.key = k
       /\ getRes.out # None
       /\ AsSlice(heap, getRes.out[1]) = Last(puts[k])
       /\ MemTableGet(map, k2) = None

\* C2: the map never holds two nodes for one (payload, version), and when no
\* put of the pair is under way it holds exactly one node for every pair that
\* was put, with the value of the last put.
OverwriteKeepsOneEntry ==
  \A k \in MemKeys :
    /\ Cardinality(NodesOf(map, k)) <= 1
    /\ (Quiescent(k) /\ puts[k] # <<>>) =>
         \E i \in NodesOf(map, k) :
           /\ NodesOf(map, k) = {i}
           /\ AsSlice(heap, map[i].value) = Last(puts[k])

\* a pair was put twice with different values and then read
OverwrittenTwice ==
  /\ AllIdle
  /\ \E k \in MemKeys :
       /\ Len(puts[k]) = 2
       /\ puts[k][1] # puts[k][2]
       /\ getRes.key = k
       /\ getRes.out # None
       /\ AsSlice(heap, getRes.out[1]) = puts[k][2]

\* C3: with a Wal attached, a put_batch that returns Ok has every entry of
\* its batch in the log.
AckedBatchIsLogged ==
  [][\A t \in Threads :
       (pc[t] = "fetch_add" /\ pc'[t] = "idle" /\ result'[t] = "Ok" /\ wal # None) =>
         \A i \in 1..Len(batch[t]) :
           \E j \in 1..Len(wal'[1].file) : wal'[1].file[j] = batch[t][i]]_vars

\* C4: while a put_batch is inserting, a get never finds an entry the call
\* has already inserted while it finds another entry of the same batch absent.
BatchVisibleAtomically ==
  \A t \in Threads :
    pc[t] = "insert" =>
      ~ \E i \in 1..(idx[t] - 1), j \in idx[t]..Len(batch[t]) :
          /\ MemTableGet(map, batch[t][i].key) # None
          /\ MemTableGet(map, batch[t][j].key) = None

\* the handles that refer to allocation a
HandlesOf(a) ==
  {i \in 1..Len(handles) : handles[i].region = "heap" /\ handles[i].addr = a}

\* C5: an allocation is freed exactly when no handle refers to it any more,
\* so no handle that is alive refers to freed memory.
FreedExactlyAtLastDrop ==
  \A a \in 1..Len(heap) : (heap[a].frees > 0) <=> (HandlesOf(a) = {})

\* C6: every allocation is handed to dealloc at most once: at any time it
\* either has exactly one handle with a capacity (the one that frees it) and
\* has not been freed, or has been freed once and no handle with a capacity is
\* left; handles on static storage and empty handles have no capacity.
EachAllocationFreedOnce ==
  /\ \A a \in 1..Len(heap) :
       /\ heap[a].frees <= 1
       /\ Cardinality({i \in HandlesOf(a) : handles[i].cap # 0}) + heap[a].frees = 1
  /\ \A i \in 1..Len(handles) :
       (handles[i].region = "static" \/ handles[i].len = 0) => handles[i].cap = 0

\* an allocation taken over from a vector was freed once by the drop of its
\* owner, a clone of it is left, and a handle on static storage exists
FreedOnceWithCloneLeft ==
  /\ \E a \in 1..Len(heap) :
       /\ heap[a].data # <<>>
       /\ heap[a].frees = 1
       /\ HandlesOf(a) # {}
  /\ \E i \in 1..Len(handles) : handles[i].region = "static"

\* C7: when every put_batch issued has returned, approximate_size is the sum
\* of payload length + 8 + value length over all entries of all calls.
SizeIsSumOfAllCalls == AllIdle => approximate_size = submitted

\* both threads have completed a call, a key was written twice, and the
\* counter counts both writes
TwoCallsCounted ==
  /\ AllIdle
  /\ \A t \in Threads : result[t] = "Ok"
  /\ \E k \in MemKeys :
       /\ Len(puts[k]) = 2
       /\ approximate_size = 2 * (Len(k.payload) + 8) + Len(puts[k][1]) + Len(puts[k][2])
       /\ approximate_size > 2 * (Len(k.payload) + 8)

\* C8: cmp on keys is the strict total order (payload ascending, version
\* descending): Less exactly when the left key is before the right one,
\* Greater exactly when it is after, Equal (and eq) exactly for identical
\* keys, and Less is transitive.
KeyOrderIsPayloadThenNewest ==
  /\ \A i, j \in 1..Len(cmpIn) :
       /\ (cmpOut[i][j].ord = "Less") <=> KeyBefore(cmpIn[i], cmpIn[j])
       /\ (cmpOut[i][j].ord = "Greater") <=> KeyBefore(cmpIn[j], cmpIn[i])
       /\ (cmpOut[i][j].ord = "Equal") <=> (cmpIn[i] = cmpIn[j])
       /\ cmpOut[i][j].eq <=> (cmpIn[i] = cmpIn[j])
  /\ \A i, j, k \in 1..Len(cmpIn) :
       (cmpOut[i][j].ord = "Less" /\ cmpOut[j][k].ord = "Less") =>
         cmpOut[i][k].ord = "Less"

\* the newer of two versions of a payload compares Less, and a key whose
\* payload is a proper prefix compares Less although its version is older
NewerAndPrefixCompared ==
  /\ Len(cmpIn) = 3
  /\ cmpIn[1].payload = cmpIn[2].payload
  /\ cmpIn[1].version > cmpIn[2].version
  /\ cmpOut[1][2].ord = "Less"
  /\ Len(cmpIn[3].payload) > 0
  /\ Len(cmpIn[3].payload) < Len(cmpIn[1].payload)
  /\ cmpIn[3].version < cmpIn[2].version
  /\ cmpOut[3][1].ord = "Less"
  /\ cmpOut[2][3].ord = "Greater"

\* C9: the nodes of the map are in key order: payload ascending and, for one
\* payload, version strictly descending.
MapSortedNewestFirst ==
  \A i, j \in 1..Len(map) : i < j => KeyBefore(map[i].key, map[j].key)

\* ("1", 0) was inserted before ("1", 1) with another value, and the map
\* lists ("1", 1) first
NewerVersionListedFirst ==
  /\ Len(map) = 2
  /\ map[1].key = Key(<<1>>, 1)
  /\ map[2].key = Key(<<1>>, 0)
  /\ map[1].value.region = "heap" /\ map[2].value.region = "heap"
  /\ map[1].value.addr > map[2].value.addr
  /\ AsSlice(heap, map[1].value) # AsSlice(heap, map[2].value)

\* the nodes of m other than those of key k
Others(m, k) == SelectSeq(m, LAMBDA n : n.key # k)

\* C10: a step of a put that changes the map changes it for the key being
\* put only: the nodes of all other keys, so of the other versions of its
\* payload, are the same before and after, and so is what a get of them reads.
PutLeavesOtherKeysAlone ==
  [][map' # map =>
       \E t \in Threads :
         /\ pc[t] = "insert"
         /\ Others(map', batch[t][idx[t]].key) = Others(map, batch[t][idx[t]].key)
         /\ \A k \in MemKeys \ {batch[t][idx[t]].key} :
              /\ MemTableGet(map', k) = MemTableGet(map, k)
              /\ MemTableGet(map, k) # None =>
                   AsSlice(heap', MemTableGet(map', k)[1])
                     = AsSlice(heap, MemTableGet(map, k)[1])]_vars

\* two versions of one payload were put with different values and each is
\* found with its own value
BothVersionsKept ==
  /\ AllIdle
  /\ \E k, k2 \in MemKeys :
       /\ k.payload = k2.payload /\ k.version # k2.version
       /\ puts[k] # <<>> /\ puts[k2] # <<>>
       /\ Last(puts[k]) # Last(puts[k2])
       /\ MemTableGet(map, k) # None /\ MemTableGet(map, k2) # None
       /\ AsSlice(heap, MemTableGet(map, k)[1]) = Last(puts[k])
       /\ AsSlice(heap, MemTableGet(map, k2)[1]) = Last(puts[k2])

\* C11: whenever sync() has returned Ok, every byte written to the Wal's
\* buffered writer before the call is in the file on stable storage, and
\* none of it is left in the buffer in memory only.
SyncLeavesNothingBuffered ==
  (walOut.op = "sync" /\ walOut.res = "Ok") =>
    /\ wlog[1].buf = <<>>
    /\ fs[walOut.path][1].disk = WalImage(written[walOut.path].batches)

\* C12: creating a MemTable with a log at an occupied path fails with
\* AlreadyExists, yields no MemTable and leaves the file there as it was; at
\* a free path it succeeds with an empty MemTable and a new, empty log file.
CreateNewRefusesOccupiedPath ==
  walOut.op = "new_with_wal" =>
    IF walOut.before # None
    THEN /\ walOut.res = "AlreadyExists"
         /\ walOut.table = None
         /\ fs[walOut.path] = walOut.before
    ELSE /\ walOut.res = "Ok"
         /\ walOut.table # None
         /\ walOut.table[1].map = <<>>
         /\ walOut.table[1].approximate_size = 0
         /\ walOut.table[1].wal # None
         /\ fs[walOut.path] = Some(FileOf(<<>>, <<>>))
         /\ wlog = Some([path |-> walOut.path, buf |-> <<>>])

\* a creation was refused at the path of a log that holds a batch
OccupiedPathRefused ==
  /\ walOut.op = "new_with_wal"
  /\ walOut.res = "AlreadyExists"
  /\ walOut.path = "b"
  /\ fs["b"][1].os # <<>>

DamagedBatchEndsRecovery ==
  (walOut.op = "recover" /\ walOut.hist.bad > 0) =>
    /\ walOut.res = "Ok"
    /\ walOut.entries = Flatten(SubSeq(walOut.hist.batches, 1, walOut.hist.bad - 1))

\* C15 as stated: read(offset, len) returns data[offset .. offset+len] when
\* offset+len is within the file and fails for every range beyond it; size()
\* is the length of the file; no read depends on an earlier one.
ReadFailsBeyondEnd ==
  /\ readOut.op = "read" =>
        IF readOut.offset + readOut.len <= Len(fobj[1].data)
        THEN /\ readOut.res = "Ok"
             /\ readOut.data = SubSeq(fobj[1].data, readOut.offset + 1,
                                       readOut.offset + readOut.len)
        ELSE readOut.res # "Ok"
  /\ readOut.op = "size" => readOut.res = Len(fobj[1].data)

\* C15, amended: read(offset, len) returns data[offset .. offset+len] when
\* offset+len is within the file, returns no bytes when len is 0 wherever
\* offset lies, and fails for every range of one byte or more that reaches
\* beyond the file; size() is the length of the file; no read depends on an
\* earlier one.
ReadIsExactOrFails ==
  /\ readOut.op = "read" =>
        IF readOut.offset + readOut.len <= Len(fobj[1].data)
        THEN /\ readOut.res = "Ok"
             /\ readOut.data = SubSeq(fobj[1].data, readOut.offset + 1,
                                       readOut.offset + readOut.len)
        ELSE IF readOut.len = 0
        THEN readOut.res = "Ok" /\ readOut.data = <<>>
        ELSE readOut.res # "Ok"
  /\ readOut.op = "size" => readOut.res = Len(fobj[1].data)

\* the first two bytes of a file of three were read after an earlier read
ReadAgainFromStart ==
  /\ readOut.op = "read"
  /\ readOut.after = "read"
  /\ readOut.offset = 0
  /\ readOut.res = "Ok"
  /\ readOut.data = <<10, 20>>

\* C16: a Bytes constructed from a byte sequence b, empty or not, by
\* adopting a vector, by copying a slice or from a static slice, reads back
\* through as_ref as exactly b.
ConstructedReadsBack ==
  \A i \in 1..Len(handles) :
    made[i].how \in {"vec", "slice", "static"} =>
      AsSlice(heap, handles[i]) = made[i].data

\* a vector with spare capacity, a static slice and an empty slice were
\* each turned into a Bytes
ThreeWaysConstructed ==
  /\ \E i \in 1..Len(handles) :
        /\ made[i].how = "vec"
        /\ made[i].data = <<1, 2, 3>>
        /\ handles[i].cap = 5
  /\ \E i \in 1..Len(handles) :
        made[i].how = "static" /\ made[i].data = <<104, 101, 108, 108, 111>>
  /\ \E i \in 1..Len(handles) : made[i].how = "slice" /\ made[i].data = <<>>

\* C17: the value a get returned reads, for as long as the caller holds
\* it, as the bytes that were stored under the key when the get was made,
\* also after a later put of the same (payload, version).
GetResultStaysValid ==
  getRes.out # None => AsSlice(heap, getRes.out[1]) = getRes.seen

\* C18: from the same MemTable state, put_batch of e1..en and the sequence
\* put(e1); ...; put(en) end with the same map and the same
\* approximate_size, and put of one entry ends as put_batch of that entry
\* does, result included.
BatchEqualsPuts ==
  /\ MapContent(mtA) = MapContent(mtB)
  /\ mtA.table.approximate_size = mtB.table.approximate_size
  /\ \A e \in Entries :
       LET one == MemTablePut(mtB, e.key, e.value)
           bat == MemTablePutBatch(mtA, <<e>>)
       IN  /\ MapContent(one) = MapContent(bat)
           /\ one.table.approximate_size = bat.table.approximate_size
           /\ one.result = bat.result

\* a batch of two entries for one key was put, and the two puts as well
BatchOverwroteWithin ==
  /\ mtA.issued = 2
  /\ Len(mtA.table.map) = 1
  /\ Len(mtB.table.map) = 1
  /\ mtA.table.approximate_size = 21
  /\ Len(mtA.heap) = 2

\* the big-endian bytes of the integers st, the first at the bottom
RECURSIVE StackImage(_)
StackImage(st) ==
  IF st = <<>> THEN <<>>
  ELSE StackImage(SubSeq(st, 1, Len(st) - 1))
         \o ToBeBytes(st[Len(st)].x, st[Len(st)].w)

\* C19: the vector is the stack of the big-endian integers put and not yet
\* got: a get of the width last put returns the value last put and leaves
\* the vector as it was before that put, so gets return what was put, last
\* first; a get on a vector shorter than its width returns None and leaves
\* the vector alone.
ByteUtilIsStack ==
  /\ vec = StackImage(stack)
  /\ utilOut.op = "get" =>
        IF Len(utilOut.before) < utilOut.w
        THEN utilOut.out = None /\ vec = utilOut.before
        ELSE /\ utilOut.out = Some(utilOut.top[1].x)
             /\ utilOut.before = vec \o ToBeBytes(utilOut.top[1].x, utilOut.w)

\* 12345 and then another u32 were put, and two gets returned them, the
\* later one first
GotBackInReverse ==
  /\ utilOut.op = "get"
  /\ utilOut.prev = "get"
  /\ utilOut.w = 4
  /\ utilOut.out = Some(12345)
  /\ vec = <<>>

\* C20: the MemTable only grows: no step removes a key that is in the map,
\* approximate_size never decreases, and is_empty() is true exactly while no
\* entry has ever been put.
MemTableOnlyGrows ==
  [][/\ \A k \in MemKeys : SkipMapFind(map, k) # 0 => SkipMapFind(map', k) # 0
     /\ approximate_size' >= approximate_size
     /\ MemTableIsEmpty(map') <=> (\A k \in MemKeys : puts'[k] = <<>>)]_vars

\* C21: get, id, approximate_size and is_empty leave the entries of the
\* map, the size counter and the id as they were, whether the get finds an
\* entry or not, and id() returns the identifier given at creation.
AccessorsReadOnly ==
  /\ mtA.table.id = accOut.born
  /\ accOut.op # "none" =>
        /\ mtA.table.map = accOut.before.table.map
        /\ MapContent(mtA) = MapContent(accOut.before)
        /\ mtA.table.approximate_size = accOut.before.table.approximate_size
        /\ mtA.table.id = accOut.before.table.id
  /\ accOut.op = "id" => accOut.out = accOut.born

\* a get found an entry in a MemTable of two, created with id 1
GetFoundAndLeftTwo ==
  /\ accOut.op = "get"
  /\ accOut.out # None
  /\ accOut.born = 1
  /\ Len(mtA.table.map) = 2
  /\ mtA.table.approximate_size > 0

====
